---- MODULE Spec2Model ----
(***************************************************************************)
(* Library lending core of odoo18_library_management: books, members and   *)
(* borrowing records, with the stored computed fields of the ORM models    *)
(* (available_copies, current_borrowed, days_overdue) kept as state and     *)
(* recomputed where their @api.depends triggers fire.                       *)
(*                                                                         *)
(* Dates are day numbers; money is an integer number of RM (the rates used *)
(* are whole numbers, for which the float products of the code are exact). *)
(***************************************************************************)
EXTENDS Integers, FiniteSets, Sequences, TLC

VARIABLES
    today,      \* fields.Date.today()
    books,      \* library.book rows: id -> row
    members,    \* library.member rows: id -> row
    records,    \* library.borrowing.record rows: id -> row
    librarians, \* library.librarian rows: id -> row
    nextSeq,    \* next number of the ir.sequence 'library.borrowing.record'
    last        \* the operation just run, its arguments and its outcome

vars == <<today, books, members, records, librarians, nextSeq, last>>

\* ---------------------------------------------------------------- bounds

\* lifecycle scenario (Spec): numbers drawn from the sequence, last day
MaxSeq == 2
MaxDay == 3
\* inventory scenario (SpecInventory)
MaxBooks == 2
InvMaxSeq == 2
InvMaxDay == 1
\* ledger scenario (SpecLedger)
MaxMembers == 2
LedMaxSeq == 2
LedMaxDay == 1
\* borrow-limit scenario (SpecLimit): numbers drawn from the sequence
MaxLoans == 11
\* date scenario (SpecDates)
DatMaxSeq == 1
DatMaxDay == 2
\* sync scenario (SpecSync)
SyncMaxSeq == 2
SyncMaxDay == 3
\* overdue scenario (SpecOverdue): numbers drawn from the sequence, last day
OvdMaxLoans == 6
OvdMaxDay == 1
\* reference scenario (SpecRefs)
RefMaxSeq == 2
RefMaxLibrarians == 2
\* member-limit scenario (SpecMemberLimit)
MlMaxLoans == 7
MlMaxDay == 1
\* stock scenario (SpecStock)
StkMaxSeq == 3
StkMaxDay == 1
\* catalogue scenario (SpecCatalog)
CatMaxBooks == 2
CatMaxMembers == 2

\* ------------------------------------------------------ program constants

FINE_PER_DAY_DEFAULT == 5
TOTAL_COPIES_DEFAULT == 1
MAX_BORROW_LIMIT_DEFAULT == 5
ACTIVE_LIMIT == 10
INACTIVE_LIMIT == 5
PENDING_LIMIT == 5
STATUS_CHANGE_THRESHOLD == 5

\* an unset Date field (False)
NoDate == -100
NoId == 0

Max(a, b) == IF a > b THEN a ELSE b

\* ------------------------------------------------------------------ book

\* mutant of UnavailableCount: overdue loans are taken for returned ones
UnavailableCountBorrowedOnly(recs, b) ==
    Cardinality({r \in DOMAIN recs :
        recs[r].book_id = b /\ recs[r].status = "borrowed"})

\* book.py:36  records of the book that are out (borrowed or overdue)
UnavailableCount(recs, b) ==
    Cardinality({r \in DOMAIN recs :
        recs[r].book_id = b /\ recs[r].status \in {"borrowed", "overdue"}})

\* book.py:32-37
ComputeAvailableCopies(total, recs, b) ==
    Max(0, total - UnavailableCount(recs, b))

\* ORM: recompute of the stored field available_copies for the books in `aff`
RecomputeBooks(bks, recs, aff) ==
    [b \in DOMAIN bks |->
        IF b \in aff
        THEN [bks[b] EXCEPT !.available_copies =
                 ComputeAvailableCopies(bks[b].total_copies, recs, b)]
        ELSE bks[b]]

\* ---------------------------------------------------------------- member

\* mutant of ComputeCurrentBorrowed: overdue loans are counted as well
ComputeCurrentBorrowedWithOverdue(recs, m) ==
    Cardinality({r \in DOMAIN recs :
        recs[r].member_id = m /\ recs[r].status \in {"borrowed", "overdue"}})

\* member.py:39-42
ComputeCurrentBorrowed(recs, m) ==
    Cardinality({r \in DOMAIN recs :
        recs[r].member_id = m /\ recs[r].status = "borrowed"})

\* mutant of LimitForStatus: an inactive member is given no loan at all
LimitForStatusInactiveNone(st, old) ==
    IF st = "active" THEN ACTIVE_LIMIT
    ELSE IF st = "inactive" THEN 0
    ELSE IF st = "pending" THEN PENDING_LIMIT
    ELSE old

\* member.py:100-107 and 116-121
LimitForStatus(st, old) ==
    IF st = "active" THEN ACTIVE_LIMIT
    ELSE IF st = "inactive" THEN INACTIVE_LIMIT
    ELSE IF st = "pending" THEN PENDING_LIMIT
    ELSE old

\* mutant of StatusChangeViolation: the pending branch is missing
StatusChangeViolationInactiveOnly(mem) ==
    mem.member_status = "inactive" /\ mem.current_borrowed > STATUS_CHANGE_THRESHOLD

\* member.py:78-95  TRUE when the constraint raises
StatusChangeViolation(mem) ==
    \/ mem.member_status = "inactive" /\ mem.current_borrowed > STATUS_CHANGE_THRESHOLD
    \/ mem.member_status = "pending" /\ mem.current_borrowed > STATUS_CHANGE_THRESHOLD

\* ORM: recompute of the stored field current_borrowed for the members in `aff`
RecomputeMembers(mems, recs, aff) ==
    [m \in DOMAIN mems |->
        IF m \in aff
        THEN [mems[m] EXCEPT !.current_borrowed = ComputeCurrentBorrowed(recs, m)]
        ELSE mems[m]]

\* ORM: the constraints of a recomputed stored field are validated on recompute
MemberConstraintFails(mems, aff) ==
    \E m \in aff \cap DOMAIN mems : StatusChangeViolation(mems[m])

\* ------------------------------------------------------ borrowing record

\* borrowing_record.py:39-59
ComputeDaysOverdue(rec, now) ==
    IF rec.status \in {"borrowed", "overdue"}
    THEN IF now > rec.expected_return_date
         THEN now - rec.expected_return_date ELSE 0
    ELSE IF rec.status = "returned" /\ rec.actual_return_date # NoDate
    THEN IF rec.actual_return_date > rec.expected_return_date
         THEN rec.actual_return_date - rec.expected_return_date ELSE 0
    ELSE 0

\* mutant of ReturnDateViolation: a return expected on the borrow date passes
ReturnDateViolationSameDayAllowed(rec) ==
    rec.expected_return_date < rec.borrow_date

\* borrowing_record.py:187-193  TRUE when the constraint raises
ReturnDateViolation(rec) ==
    rec.expected_return_date <= rec.borrow_date

\* mutant of ActualReturnDateViolation: the constraint never raises
ActualReturnDateViolationNever(rec) == FALSE

\* borrowing_record.py:195-201  TRUE when the constraint raises
ActualReturnDateViolation(rec) ==
    /\ rec.actual_return_date # NoDate
    /\ rec.actual_return_date < rec.borrow_date

\* what an operation leaves for its caller: the error it raised ("ok": none),
\* the rows it was about, the value it was given, the count it reports
Outcome(op, err, m, b, r, arg, n) ==
    [op |-> op, err |-> err, m |-> m, b |-> b, r |-> r, arg |-> arg, n |-> n]

Done(op, err, m, b, r, arg) == Outcome(op, err, m, b, r, arg, 0)

\* ------------------------------------------------------------ input sets

\* employee ids, as the number xxx of LIBxxx
EmployeeIdInputs == {1, 2}
Statuses == {"borrowed", "overdue", "returned"}
MemberStatuses == {"active", "pending", "inactive"}
\* vals.get('member_status') of Member.create: a status, or none given
StatusInputs == MemberStatuses \cup {"none"}
\* total_copies is an unconstrained Integer field (book.py:23)
TotalCopiesInputs == {-1, TOTAL_COPIES_DEFAULT, 2}
\* borrow dates: yesterday's, tomorrow's; expected return dates: day 0, day 2
BorrowDateInputs == {-1, 1}
ExpectedDateInputs == {0, 2}
RateInputs == {FINE_PER_DAY_DEFAULT}
\* dates given to a write of a date field; False unsets actual_return_date
DateWriteInputs == {-1, 0, 1, 2}
ActualDateWriteInputs == DateWriteInputs \cup {NoDate}
\* ISBNs and phone numbers, as numbers standing for the strings
IsbnInputs == {1, 2, 3}
PhoneInputs == {1, 2, 3}

\* ------------------------------------------------------------------ Init

Init ==
    /\ today = 0
    /\ books = <<>>
    /\ members = <<>>
    /\ records = <<>>
    /\ librarians = <<>>
    /\ nextSeq = 1
    /\ last = Done("init", "ok", NoId, NoId, NoId, "")

\* ------------------------------------------------------- book operations

\* mutant of IsbnTaken: only the book created before this one is looked at
IsbnTakenByPrevious(bks, isbn, self) ==
    self - 1 \in DOMAIN bks /\ bks[self - 1].isbn = isbn

\* book.py:7-9 and 39-51  another book already holds the ISBN
IsbnTaken(bks, isbn, self) ==
    \E o \in DOMAIN bks : o # self /\ bks[o].isbn = isbn

\* Book.create: book.py:11-51
CreateBook(isbn, total) ==
    LET b == Cardinality(DOMAIN books) + 1
        row == [isbn |-> isbn, total_copies |-> total,
                available_copies |-> ComputeAvailableCopies(total, records, b)]
    IN  /\ IF IsbnTaken(books, isbn, b)
           THEN /\ UNCHANGED books
                /\ last' = Outcome("create_book", "DuplicateISBN", NoId, b, NoId, "", isbn)
           ELSE /\ books' = books @@ (b :> row)
                /\ last' = Outcome("create_book", "ok", NoId, b, NoId, "", isbn)
        /\ UNCHANGED <<today, members, records, nextSeq, librarians>>

\* Book.write({'total_copies': n}): book.py:23, 32-37
WriteTotalCopies(b, n) ==
    /\ b \in DOMAIN books
    /\ books' = RecomputeBooks([books EXCEPT ![b].total_copies = n], records, {b})
    /\ last' = Done("write_total_copies", "ok", NoId, b, NoId, "")
    /\ UNCHANGED <<today, members, records, nextSeq, librarians>>

\* Book.write({'isbn': isbn}): book.py:7-9, 39-51
WriteIsbn(b, isbn) ==
    /\ b \in DOMAIN books
    /\ IF IsbnTaken(books, isbn, b)
       THEN /\ UNCHANGED books
            /\ last' = Outcome("write_isbn", "DuplicateISBN", NoId, b, NoId, "", isbn)
       ELSE /\ books' = [books EXCEPT ![b].isbn = isbn]
            /\ last' = Outcome("write_isbn", "ok", NoId, b, NoId, "", isbn)
    /\ UNCHANGED <<today, members, records, nextSeq, librarians>>

\* ----------------------------------------------------- member operations

\* member.py:52-66  another member that is not inactive holds the phone
PhoneTakenByNonInactive(mems, phone, self) ==
    \E o \in DOMAIN mems :
        o # self /\ mems[o].phone = phone /\ mems[o].member_status # "inactive"

\* member.py:11-13  UNIQUE(phone): another member holds the phone
PhoneTaken(mems, phone, self) ==
    \E o \in DOMAIN mems : o # self /\ mems[o].phone = phone

\* Member.create: member.py:110-124, with the field defaults of 20-26
CreateMember(st, phone) ==
    LET m == Cardinality(DOMAIN members) + 1
        row == [member_status |-> IF st = "none" THEN "active" ELSE st,
                max_borrow_limit |-> LimitForStatus(st, MAX_BORROW_LIMIT_DEFAULT),
                current_borrowed |-> ComputeCurrentBorrowed(records, m),
                phone |-> phone]
    IN  /\ IF PhoneTakenByNonInactive(members, phone, m) \/ PhoneTaken(members, phone, m)
           THEN /\ UNCHANGED members
                /\ last' = Outcome("create_member", "DuplicatePhone", m, NoId, NoId, st, phone)
           ELSE /\ members' = members @@ (m :> row)
                /\ last' = Outcome("create_member", "ok", m, NoId, NoId, st, phone)
        /\ UNCHANGED <<today, books, records, nextSeq, librarians>>

\* Member.write({'member_status': st}): member.py:78-108
WriteMemberStatus(m, st) ==
    /\ m \in DOMAIN members
    /\ LET written == [members[m] EXCEPT !.member_status = st]
           saved == [written EXCEPT
                        !.max_borrow_limit = LimitForStatus(st, written.max_borrow_limit)]
       IN  IF StatusChangeViolation(written)
           THEN /\ UNCHANGED members
                /\ last' = Done("write_member_status", "StatusLimit", m, NoId, NoId, st)
           ELSE /\ members' = [members EXCEPT ![m] = saved]
                /\ last' = Done("write_member_status", "ok", m, NoId, NoId, st)
    /\ UNCHANGED <<today, books, records, nextSeq, librarians>>

\* Member.write({'phone': phone}): member.py:11-13, 52-66
WriteMemberPhone(m, phone) ==
    /\ m \in DOMAIN members
    /\ IF PhoneTakenByNonInactive(members, phone, m) \/ PhoneTaken(members, phone, m)
       THEN /\ UNCHANGED members
            /\ last' = Outcome("write_member_phone", "DuplicatePhone", m, NoId, NoId, "", phone)
       ELSE /\ members' = [members EXCEPT ![m].phone = phone]
            /\ last' = Outcome("write_member_phone", "ok", m, NoId, NoId, "", phone)
    /\ UNCHANGED <<today, books, records, nextSeq, librarians>>

\* librarian.py:9-11  UNIQUE(employee_id): another librarian holds the id
EmployeeIdTaken(libs, e, self) ==
    \E o \in DOMAIN libs : o # self /\ libs[o].employee_id = e

\* Librarian.create: librarian.py:6-18
CreateLibrarian(e) ==
    LET l == Cardinality(DOMAIN librarians) + 1
    IN  /\ IF EmployeeIdTaken(librarians, e, l)
           THEN /\ UNCHANGED librarians
                /\ last' = Outcome("create_librarian", "DuplicateEmployeeId",
                                   NoId, NoId, NoId, "", e)
           ELSE /\ librarians' = librarians @@ (l :> [employee_id |-> e])
                /\ last' = Outcome("create_librarian", "ok", NoId, NoId, NoId, "", e)
        /\ UNCHANGED <<today, books, members, records, nextSeq>>

\* ----------------------------------------------------- record operations

\* ir.sequence.next_by_code runs before the validations of create
\* (borrowing_record.py:73-75).  A 'standard' sequence keeps the number drawn
\* when the transaction is rolled back, a 'no_gap' one gives it back.
SeqAfterRollback(n) == {n, n + 1}

\* mutant of LimitReached: the comparison is off by one
LimitReachedOffByOne(borrowed, limit) == borrowed > limit

\* borrowing_record.py:84
LimitReached(borrowed, limit) == borrowed >= limit

\* mutant of SearchCountBorrowed: overdue records are counted as well
SearchCountUnreturned(recs, m) ==
    Cardinality({r \in DOMAIN recs :
        recs[r].member_id = m /\ recs[r].status \in {"borrowed", "overdue"}})

\* borrowing_record.py:80-83  search_count of the member's borrowed records
SearchCountBorrowed(recs, m) ==
    Cardinality({r \in DOMAIN recs :
        recs[r].member_id = m /\ recs[r].status = "borrowed"})

\* borrowing_record.py:92
BookUnavailable(book) == book.available_copies < 1

\* mutant of InitialStatus: a record due on the day of creation is overdue
InitialStatusDueToday(ed, now) == IF ed <= now THEN "overdue" ELSE "borrowed"

\* borrowing_record.py:95-104
InitialStatus(ed, now) == IF ed < now THEN "overdue" ELSE "borrowed"

\* BorrowingRecord.create: borrowing_record.py:69-112
CreateRecord(m, b, l, bd, ed, rate) ==
    /\ m \in DOMAIN members
    /\ b \in DOMAIN books
    /\ l \in DOMAIN librarians
    /\ LET n == nextSeq
           raw == [member_id |-> m, book_id |-> b, librarian_id |-> l,
                   borrow_date |-> bd, expected_return_date |-> ed,
                   actual_return_date |-> NoDate,
                   status |-> InitialStatus(ed, today),
                   days_overdue |-> 0, fine_amount |-> 0, fine_per_day |-> rate]
           rec == [raw EXCEPT !.days_overdue = ComputeDaysOverdue(raw, today)]
           recs == records @@ (n :> rec)
           mems == RecomputeMembers(members, recs, {m})
           err == IF LimitReached(SearchCountBorrowed(records, m),
                                  members[m].max_borrow_limit)
                  THEN "LimitExceeded"
                  ELSE IF BookUnavailable(books[b]) THEN "Unavailable"
                  ELSE IF ReturnDateViolation(rec) THEN "DateOrder"
                  ELSE IF MemberConstraintFails(mems, {m}) THEN "StatusLimit"
                  ELSE "ok"
       IN  /\ last' = Done("create", err, m, b, n, "")
           /\ IF err = "ok"
              THEN /\ records' = recs
                   /\ members' = mems
                   /\ books' = RecomputeBooks(books, recs, {b})
                   /\ nextSeq' = n + 1
              ELSE /\ UNCHANGED <<records, members, books>>
                   /\ nextSeq' \in SeqAfterRollback(n)
    /\ UNCHANGED <<today, librarians>>

\* mutant of OverdueFine: the fine is added to the one already recorded
OverdueFineAccrued(rec, days) == rec.fine_amount + days * rec.fine_per_day

\* borrowing_record.py:151, 244, 271
OverdueFine(rec, days) == days * rec.fine_per_day

\* mutant of ReturnFine: the fine of an early return is not held at 0
ReturnFineUnclamped(rec, now) ==
    OverdueFine(rec, now - rec.expected_return_date)

\* borrowing_record.py:145-151
ReturnFine(rec, now) ==
    IF now > rec.expected_return_date
    THEN OverdueFine(rec, now - rec.expected_return_date)
    ELSE 0

\* mutant of AlreadyReturned: the check is missing
AlreadyReturnedNever(rec) == FALSE

\* borrowing_record.py:142
AlreadyReturned(rec) == rec.status = "returned"

\* BorrowingRecord.action_return_book: borrowing_record.py:138-168,
\* through write (114-124) and the constraint of 195-201
ReturnBook(r) ==
    /\ r \in DOMAIN records
    /\ LET old == records[r]
           raw == [old EXCEPT !.actual_return_date = today,
                              !.status = "returned",
                              !.fine_amount = ReturnFine(old, today)]
           rec == [raw EXCEPT !.days_overdue = ComputeDaysOverdue(raw, today)]
           recs == [records EXCEPT ![r] = rec]
           mems == RecomputeMembers(members, recs, {old.member_id})
           err == IF AlreadyReturned(old) THEN "AlreadyReturned"
                  ELSE IF ActualReturnDateViolation(rec) THEN "DateOrder"
                  ELSE IF MemberConstraintFails(mems, {old.member_id}) THEN "StatusLimit"
                  ELSE "ok"
       IN  /\ last' = Done("return", err, old.member_id, old.book_id, r, "")
           /\ IF err = "ok"
              THEN /\ records' = recs
                   /\ members' = mems
                   /\ books' = RecomputeBooks(books, recs, {old.book_id})
              ELSE UNCHANGED <<records, members, books>>
    /\ UNCHANGED <<today, nextSeq, librarians>>

\* a function without the key r
Without(f, r) == [k \in DOMAIN f \ {r} |-> f[k]]

\* mutant of UnlinkBlocked: only borrowed loans block the deletion
UnlinkBlockedBorrowedOnly(rec) == rec.status = "borrowed"

\* borrowing_record.py:129
UnlinkBlocked(rec) == rec.status \in {"borrowed", "overdue"}

\* BorrowingRecord.unlink: borrowing_record.py:126-136
UnlinkRecord(r) ==
    /\ r \in DOMAIN records
    /\ LET old == records[r]
           recs == Without(records, r)
       IN  IF UnlinkBlocked(old)
           THEN /\ UNCHANGED <<records, members, books>>
                /\ last' = Done("unlink", "Blocked", old.member_id, old.book_id, r, "")
           ELSE /\ records' = recs
                /\ members' = RecomputeMembers(members, recs, {old.member_id})
                /\ books' = RecomputeBooks(books, recs, {old.book_id})
                /\ last' = Done("unlink", "ok", old.member_id, old.book_id, r, "")
    /\ UNCHANGED <<today, nextSeq, librarians>>

\* BorrowingRecord.write({'status': st}): borrowing_record.py:114-124
WriteStatus(r, st) ==
    /\ r \in DOMAIN records
    /\ LET old == records[r]
           raw == [old EXCEPT !.status = st]
           rec == [raw EXCEPT !.days_overdue = ComputeDaysOverdue(raw, today)]
           recs == [records EXCEPT ![r] = rec]
           mems == RecomputeMembers(members, recs, {old.member_id})
       IN  IF MemberConstraintFails(mems, {old.member_id})
           THEN /\ UNCHANGED <<records, members, books>>
                /\ last' = Done("write_status", "StatusLimit", old.member_id, old.book_id, r, st)
           ELSE /\ records' = recs
                /\ members' = mems
                /\ books' = RecomputeBooks(books, recs, {old.book_id})
                /\ last' = Done("write_status", "ok", old.member_id, old.book_id, r, st)
    /\ UNCHANGED <<today, nextSeq, librarians>>

\* ORM write of one date field: the constraints that name the field are
\* validated on the row as written (borrowing_record.py:187-201), and
\* days_overdue is recomputed when the field is one of its dependencies (39)
WriteDate(r, op, d, written, recompute) ==
    LET old == records[r]
        rec == IF recompute
               THEN [written EXCEPT !.days_overdue = ComputeDaysOverdue(written, today)]
               ELSE written
    IN  /\ IF ReturnDateViolation(rec) \/ ActualReturnDateViolation(rec)
           THEN /\ UNCHANGED records
                /\ last' = Outcome(op, "DateOrder", old.member_id, old.book_id, r, "", d)
           ELSE /\ records' = [records EXCEPT ![r] = rec]
                /\ last' = Outcome(op, "ok", old.member_id, old.book_id, r, "", d)
        /\ UNCHANGED <<today, books, members, nextSeq, librarians>>

\* BorrowingRecord.write({'borrow_date': d}): borrowing_record.py:114-124
WriteBorrowDate(r, d) ==
    /\ r \in DOMAIN records
    /\ WriteDate(r, "write_borrow_date", d,
                 [records[r] EXCEPT !.borrow_date = d], FALSE)

\* BorrowingRecord.write({'expected_return_date': d}): borrowing_record.py:114-124
WriteExpectedReturnDate(r, d) ==
    /\ r \in DOMAIN records
    /\ WriteDate(r, "write_expected_return_date", d,
                 [records[r] EXCEPT !.expected_return_date = d], TRUE)

\* BorrowingRecord.write({'actual_return_date': d}): borrowing_record.py:114-124
WriteActualReturnDate(r, d) ==
    /\ r \in DOMAIN records
    /\ WriteDate(r, "write_actual_return_date", d,
                 [records[r] EXCEPT !.actual_return_date = d], TRUE)

\* ----------------------------------------- deletion of referenced rows

\* mutant of MemberReferenced: returned records do not hold the member
MemberReferencedUnreturnedOnly(recs, m) ==
    \E r \in DOMAIN recs :
        recs[r].member_id = m /\ recs[r].status \in {"borrowed", "overdue"}

\* borrowing_record.py:16  ondelete='restrict': a record refers to the member
MemberReferenced(recs, m) == \E r \in DOMAIN recs : recs[r].member_id = m

\* borrowing_record.py:18  ondelete='restrict': a record refers to the book
BookReferenced(recs, b) == \E r \in DOMAIN recs : recs[r].book_id = b

\* borrowing_record.py:20  ondelete='restrict': a record refers to the librarian
LibrarianReferenced(recs, l) == \E r \in DOMAIN recs : recs[r].librarian_id = l

\* Member.unlink (the ORM's; member.py has no override)
UnlinkMember(m) ==
    /\ m \in DOMAIN members
    /\ IF MemberReferenced(records, m)
       THEN /\ UNCHANGED members
            /\ last' = Done("unlink_member", "Restrict", m, NoId, NoId, "")
       ELSE /\ members' = Without(members, m)
            /\ last' = Done("unlink_member", "ok", m, NoId, NoId, "")
    /\ UNCHANGED <<today, books, records, nextSeq, librarians>>

\* Book.unlink (the ORM's; book.py has no override)
UnlinkBook(b) ==
    /\ b \in DOMAIN books
    /\ IF BookReferenced(records, b)
       THEN /\ UNCHANGED books
            /\ last' = Done("unlink_book", "Restrict", NoId, b, NoId, "")
       ELSE /\ books' = Without(books, b)
            /\ last' = Done("unlink_book", "ok", NoId, b, NoId, "")
    /\ UNCHANGED <<today, members, records, nextSeq, librarians>>

\* Librarian.unlink (the ORM's; librarian.py has no override)
UnlinkLibrarian(l) ==
    /\ l \in DOMAIN librarians
    /\ IF LibrarianReferenced(records, l)
       THEN /\ UNCHANGED librarians
            /\ last' = Outcome("unlink_librarian", "Restrict", NoId, NoId, NoId, "", l)
       ELSE /\ librarians' = Without(librarians, l)
            /\ last' = Outcome("unlink_librarian", "ok", NoId, NoId, NoId, "", l)
    /\ UNCHANGED <<today, books, members, records, nextSeq>>

\* ------------------------------------------------------------ batch jobs

\* mutant of PastDue: the search has no condition on the status
PastDueAnyStatus(recs, st, now) ==
    {r \in DOMAIN recs : recs[r].expected_return_date < now}

\* mutant of PastDue: the records due on the current date are taken as well
PastDueOrDueToday(recs, st, now) ==
    {r \in DOMAIN recs : recs[r].status = st /\ recs[r].expected_return_date <= now}

\* search([('status', '=', st), ('expected_return_date', '<', today)]):
\* borrowing_record.py:214-217, 231-234, 263-266
PastDue(recs, st, now) ==
    {r \in DOMAIN recs : recs[r].status = st /\ recs[r].expected_return_date < now}

\* _order = 'borrow_date desc' (borrowing_record.py:12): the record of `todo`
\* a search returns first
FirstOf(recs, todo) ==
    CHOOSE r \in todo : \A o \in todo :
        \/ recs[r].borrow_date > recs[o].borrow_date
        \/ recs[r].borrow_date = recs[o].borrow_date /\ r <= o

\* BorrowingRecord.update_overdue_records: borrowing_record.py:211-219
UpdateOverdueRecords ==
    LET sel == PastDue(records, "borrowed", today)
        recs == [r \in DOMAIN records |->
                    IF r \in sel
                    THEN LET raw == [records[r] EXCEPT !.status = "overdue"]
                         IN  [raw EXCEPT !.days_overdue = ComputeDaysOverdue(raw, today)]
                    ELSE records[r]]
        ms == {records[r].member_id : r \in sel}
        bs == {records[r].book_id : r \in sel}
        mems == RecomputeMembers(members, recs, ms)
    IN  /\ IF MemberConstraintFails(mems, ms)
           THEN /\ UNCHANGED <<records, members, books>>
                /\ last' = Done("update_overdue_records", "StatusLimit", NoId, NoId, NoId, "")
           ELSE /\ records' = recs
                /\ members' = mems
                /\ books' = RecomputeBooks(books, recs, bs)
                /\ last' = Outcome("update_overdue_records", "ok", NoId, NoId, NoId, "",
                                   Cardinality(sel))
        /\ UNCHANGED <<today, nextSeq, librarians>>

\* borrowing_record.py:239-254  one pass of the first loop: the record is
\* written overdue with its fine and days; an error raised by the write ends
\* the job (290-292) with the earlier records' writes kept
RECURSIVE FineLoopBorrowed(_, _, _)
FineLoopBorrowed(st, todo, now) ==
    IF todo = {} \/ ~st.ok THEN st
    ELSE LET r == FirstOf(st.recs, todo)
             old == st.recs[r]
             days == now - old.expected_return_date
             rec == [old EXCEPT !.status = "overdue",
                                !.fine_amount = OverdueFine(old, days),
                                !.days_overdue = days]
             recs == [st.recs EXCEPT ![r] = rec]
             mems == RecomputeMembers(st.mems, recs, {old.member_id})
             nxt == IF MemberConstraintFails(mems, {old.member_id})
                    THEN [st EXCEPT !.ok = FALSE]
                    ELSE [recs |-> recs, mems |-> mems,
                          bks |-> RecomputeBooks(st.bks, recs, {old.book_id}),
                          ok |-> TRUE, updated |-> st.updated + 1]
         IN  FineLoopBorrowed(nxt, todo \ {r}, now)

\* borrowing_record.py:268-280  one pass of the second loop: fine and days of
\* an overdue record are written only when one of them changed
RECURSIVE FineLoopOverdue(_, _, _)
FineLoopOverdue(st, todo, now) ==
    IF todo = {} \/ ~st.ok THEN st
    ELSE LET r == FirstOf(st.recs, todo)
             old == st.recs[r]
             days == now - old.expected_return_date
             fine == OverdueFine(old, days)
             nxt == IF old.fine_amount # fine \/ old.days_overdue # days
                    THEN [st EXCEPT !.recs[r] = [old EXCEPT !.fine_amount = fine,
                                                            !.days_overdue = days],
                                    !.updated = st.updated + 1]
                    ELSE st
         IN  FineLoopOverdue(nxt, todo \ {r}, now)

\* mutant of FineSweep: the loop over the overdue records is missing
FineSweepBorrowedOnly(recs0, mems0, bks0, now) ==
    FineLoopBorrowed([recs |-> recs0, mems |-> mems0, bks |-> bks0, ok |-> TRUE,
                      updated |-> 0],
                     PastDue(recs0, "borrowed", now), now)

\* the state a run of the daily fine sweep leaves
FineSweep(recs0, mems0, bks0, now) ==
    LET s0 == [recs |-> recs0, mems |-> mems0, bks |-> bks0, ok |-> TRUE,
               updated |-> 0]
        s1 == FineLoopBorrowed(s0, PastDue(recs0, "borrowed", now), now)
    IN  FineLoopOverdue(s1, PastDue(s1.recs, "overdue", now), now)

\* BorrowingRecord.cron_calculate_overdue_fines: borrowing_record.py:221-292
CronCalculateOverdueFines ==
    LET s == FineSweep(records, members, books, today)
    IN  /\ records' = s.recs
        /\ members' = s.mems
        /\ books' = s.bks
        /\ last' = Outcome("cron_calculate_overdue_fines",
                           IF s.ok THEN "ok" ELSE "false", NoId, NoId, NoId, "",
                           s.updated)
        /\ UNCHANGED <<today, nextSeq, librarians>>

\* BorrowingRecord.action_test_cron_fine_calculation:
\* borrowing_record.py:294-305  returns the notification; no call is made
ActionTestCronFineCalculation ==
    /\ last' = Done("action_test_cron_fine_calculation", "ok", NoId, NoId, NoId, "")
    /\ UNCHANGED <<today, books, members, records, nextSeq, librarians>>

\* member.py:131, 234-237  active members with at least one overdue record
MembersWithOverdue(mems, recs) ==
    {m \in DOMAIN mems :
        /\ mems[m].member_status = "active"
        /\ \E r \in DOMAIN recs :
              recs[r].member_id = m /\ recs[r].status = "overdue"}

\* mutant of ReviewMembers: the members found with overdue books are marked
\* pending, with the limit of that status
ReviewMembersAutoPending(mems, recs) ==
    [m \in DOMAIN mems |->
        IF m \in MembersWithOverdue(mems, recs)
        THEN [mems[m] EXCEPT !.member_status = "pending",
                             !.max_borrow_limit = PENDING_LIMIT]
        ELSE mems[m]]

\* member.py:233-268  the member rows the review leaves: it searches, counts
\* and logs, and writes no field
ReviewMembers(mems, recs) == mems

\* Member.cron_review_member_status: member.py:225-273
CronReviewMemberStatus ==
    /\ members' = ReviewMembers(members, records)
    /\ last' = Outcome("cron_review_member_status", "ok", NoId, NoId, NoId, "",
                       Cardinality(MembersWithOverdue(members, records)))
    /\ UNCHANGED <<today, books, records, nextSeq, librarians>>

\* the date moves on; no stored field is recomputed by that
AdvanceDay ==
    /\ today' = today + 1
    /\ last' = Done("advance_day", "ok", NoId, NoId, NoId, "")
    /\ UNCHANGED <<books, members, records, nextSeq, librarians>>

\* ------------------------------------------------------- specifications

\* Lifecycle scenario: one member, one book with the default single copy,
\* loans with every date input, all record operations, both sweeps.
Next ==
    \/ (DOMAIN books = {} /\ CreateBook(1, TOTAL_COPIES_DEFAULT))
    \/ (DOMAIN librarians = {} /\ CreateLibrarian(1))
    \/ (DOMAIN members = {} /\ CreateMember("active", 1))
    \/ (nextSeq <= MaxSeq
        /\ \E m \in DOMAIN members, b \in DOMAIN books, l \in DOMAIN librarians,
              bd \in BorrowDateInputs, ed \in ExpectedDateInputs, rate \in RateInputs :
             CreateRecord(m, b, l, bd, ed, rate))
    \/ \E r \in DOMAIN records : ReturnBook(r)
    \/ \E r \in DOMAIN records : UnlinkRecord(r)
    \/ \E r \in DOMAIN records, st \in Statuses : WriteStatus(r, st)
    \/ UpdateOverdueRecords
    \/ CronCalculateOverdueFines
    \/ (today < MaxDay /\ AdvanceDay)

Spec == Init /\ [][Next]_vars

\* Inventory scenario: several books with every total_copies input, one
\* member, loans due on day 0, all record operations, both sweeps.
NextInventory ==
    \/ (Cardinality(DOMAIN books) < MaxBooks
        /\ \E t \in TotalCopiesInputs :
             CreateBook(Cardinality(DOMAIN books) + 1, t))
    \/ (DOMAIN librarians = {} /\ CreateLibrarian(1))
    \/ \E b \in DOMAIN books, t \in TotalCopiesInputs : WriteTotalCopies(b, t)
    \/ (DOMAIN members = {} /\ CreateMember("active", 1))
    \/ (nextSeq <= InvMaxSeq
        /\ \E m \in DOMAIN members, b \in DOMAIN books, l \in DOMAIN librarians,
              rate \in RateInputs :
             CreateRecord(m, b, l, -1, 0, rate))
    \/ \E r \in DOMAIN records : ReturnBook(r)
    \/ \E r \in DOMAIN records : UnlinkRecord(r)
    \/ \E r \in DOMAIN records, st \in Statuses : WriteStatus(r, st)
    \/ UpdateOverdueRecords
    \/ CronCalculateOverdueFines
    \/ (today < InvMaxDay /\ AdvanceDay)

SpecInventory == Init /\ [][NextInventory]_vars

\* Ledger scenario: several members, one book with a copy for every loan,
\* loans due on day 0, all record operations, both sweeps.
NextLedger ==
    \/ (DOMAIN books = {} /\ CreateBook(1, LedMaxSeq))
    \/ (DOMAIN librarians = {} /\ CreateLibrarian(1))
    \/ (Cardinality(DOMAIN members) < MaxMembers
        /\ CreateMember("active", Cardinality(DOMAIN members) + 1))
    \/ (nextSeq <= LedMaxSeq
        /\ \E m \in DOMAIN members, b \in DOMAIN books, l \in DOMAIN librarians,
              rate \in RateInputs :
             CreateRecord(m, b, l, -1, 0, rate))
    \/ \E r \in DOMAIN records : ReturnBook(r)
    \/ \E r \in DOMAIN records : UnlinkRecord(r)
    \/ \E r \in DOMAIN records, st \in Statuses : WriteStatus(r, st)
    \/ UpdateOverdueRecords
    \/ CronCalculateOverdueFines
    \/ (today < LedMaxDay /\ AdvanceDay)

SpecLedger == Init /\ [][NextLedger]_vars

\* the loan of lowest number that is still out
OldestBorrowed(r) ==
    /\ records[r].status = "borrowed"
    /\ \A o \in DOMAIN records : records[o].status = "borrowed" => r <= o

\* Borrow-limit scenario: one member of every status, one book with copies
\* to spare, loans taken on day 0 and returned oldest first.
NextLimit ==
    \/ (DOMAIN books = {} /\ CreateBook(1, MaxLoans + 1))
    \/ (DOMAIN librarians = {} /\ CreateLibrarian(1))
    \/ (DOMAIN members = {} /\ \E st \in StatusInputs : CreateMember(st, 1))
    \/ \E m \in DOMAIN members, st \in MemberStatuses : WriteMemberStatus(m, st)
    \/ (nextSeq <= MaxLoans
        /\ \E m \in DOMAIN members, b \in DOMAIN books, l \in DOMAIN librarians :
             CreateRecord(m, b, l, -1, 2, FINE_PER_DAY_DEFAULT))
    \/ \E r \in DOMAIN records : OldestBorrowed(r) /\ ReturnBook(r)

SpecLimit == Init /\ [][NextLimit]_vars

\* Catalogue scenario: books and members created and rewritten with every
\* ISBN, phone and status input; no loans.
NextCatalog ==
    \/ (Cardinality(DOMAIN books) < CatMaxBooks
        /\ \E isbn \in IsbnInputs : CreateBook(isbn, TOTAL_COPIES_DEFAULT))
    \/ \E b \in DOMAIN books, isbn \in IsbnInputs : WriteIsbn(b, isbn)
    \/ (Cardinality(DOMAIN members) < CatMaxMembers
        /\ \E st \in StatusInputs, phone \in PhoneInputs : CreateMember(st, phone))
    \/ \E m \in DOMAIN members, phone \in PhoneInputs : WriteMemberPhone(m, phone)
    \/ \E m \in DOMAIN members, st \in MemberStatuses : WriteMemberStatus(m, st)

SpecCatalog == Init /\ [][NextCatalog]_vars

\* Date scenario: one member, one book, loans with every date input, writes
\* of each date field with every date, Return.
NextDates ==
    \/ (DOMAIN books = {} /\ CreateBook(1, TOTAL_COPIES_DEFAULT))
    \/ (DOMAIN librarians = {} /\ CreateLibrarian(1))
    \/ (DOMAIN members = {} /\ CreateMember("active", 1))
    \/ (nextSeq <= DatMaxSeq
        /\ \E m \in DOMAIN members, b \in DOMAIN books, l \in DOMAIN librarians,
              bd \in BorrowDateInputs, ed \in ExpectedDateInputs \cup BorrowDateInputs,
              rate \in RateInputs :
             CreateRecord(m, b, l, bd, ed, rate))
    \/ \E r \in DOMAIN records, d \in DateWriteInputs : WriteBorrowDate(r, d)
    \/ \E r \in DOMAIN records, d \in DateWriteInputs : WriteExpectedReturnDate(r, d)
    \/ \E r \in DOMAIN records, d \in ActualDateWriteInputs : WriteActualReturnDate(r, d)
    \/ \E r \in DOMAIN records : ReturnBook(r)
    \/ (today < DatMaxDay /\ AdvanceDay)

SpecDates == Init /\ [][NextDates]_vars

\* Sync scenario: one member whose status is rewritten, one book, loans
\* borrowed the day before day 0, Return, Delete, both sweeps, the weekly
\* review, the manual test action.
NextSync ==
    \/ (DOMAIN books = {} /\ CreateBook(1, TOTAL_COPIES_DEFAULT))
    \/ (DOMAIN librarians = {} /\ CreateLibrarian(1))
    \/ (DOMAIN members = {} /\ CreateMember("active", 1))
    \/ \E m \in DOMAIN members, st \in MemberStatuses : WriteMemberStatus(m, st)
    \/ (nextSeq <= SyncMaxSeq
        /\ \E m \in DOMAIN members, b \in DOMAIN books, l \in DOMAIN librarians,
              ed \in ExpectedDateInputs, rate \in RateInputs :
             CreateRecord(m, b, l, -1, ed, rate))
    \/ \E r \in DOMAIN records : ReturnBook(r)
    \/ \E r \in DOMAIN records : UnlinkRecord(r)
    \/ UpdateOverdueRecords
    \/ CronCalculateOverdueFines
    \/ CronReviewMemberStatus
    \/ ActionTestCronFineCalculation
    \/ (today < SyncMaxDay /\ AdvanceDay)

SpecSync == Init /\ [][NextSync]_vars

\* Overdue scenario: one pending member (limit 5), one book with copies to
\* spare, loans due on day 0 or day 2, both sweeps.
NextOverdue ==
    \/ (DOMAIN books = {} /\ CreateBook(1, OvdMaxLoans + 1))
    \/ (DOMAIN librarians = {} /\ CreateLibrarian(1))
    \/ (DOMAIN members = {} /\ CreateMember("pending", 1))
    \/ (nextSeq <= OvdMaxLoans
        /\ \E m \in DOMAIN members, b \in DOMAIN books, l \in DOMAIN librarians,
              ed \in ExpectedDateInputs, rate \in RateInputs :
             CreateRecord(m, b, l, -1, ed, rate))
    \/ UpdateOverdueRecords
    \/ CronCalculateOverdueFines
    \/ (today < OvdMaxDay /\ AdvanceDay)

SpecOverdue == Init /\ [][NextOverdue]_vars

\* Reference scenario: one member, one book and librarians, created when
\* none is on file and deleted again (a row that is deleted is referred to
\* by no record, so the id a later row takes is of no consequence), loans
\* not yet due, Return, Delete.
NextRefs ==
    \/ (DOMAIN books = {} /\ CreateBook(1, RefMaxSeq))
    \/ (DOMAIN members = {} /\ CreateMember("active", 1))
    \/ (/\ Cardinality(DOMAIN librarians) < RefMaxLibrarians
        /\ DOMAIN librarians = 1 .. Cardinality(DOMAIN librarians)
        /\ \E e \in EmployeeIdInputs : CreateLibrarian(e))
    \/ (nextSeq <= RefMaxSeq
        /\ \E m \in DOMAIN members, b \in DOMAIN books, l \in DOMAIN librarians,
              rate \in RateInputs :
             CreateRecord(m, b, l, -1, 2, rate))
    \/ \E r \in DOMAIN records : ReturnBook(r)
    \/ \E r \in DOMAIN records : UnlinkRecord(r)
    \/ \E m \in DOMAIN members : UnlinkMember(m)
    \/ \E b \in DOMAIN books : UnlinkBook(b)
    \/ \E l \in DOMAIN librarians : UnlinkLibrarian(l)

SpecRefs == Init /\ [][NextRefs]_vars

\* the returned loan of lowest number
OldestReturned(r) ==
    /\ records[r].status = "returned"
    /\ \A o \in DOMAIN records : records[o].status = "returned" => r <= o

\* Member-limit scenario: one member created with every status input and
\* rewritten, one book with copies to spare, loans due on day 0, returned
\* and deleted oldest first, both sweeps.
NextMemberLimit ==
    \/ (DOMAIN books = {} /\ CreateBook(1, MlMaxLoans + 1))
    \/ (DOMAIN librarians = {} /\ CreateLibrarian(1))
    \/ (DOMAIN members = {} /\ \E st \in StatusInputs : CreateMember(st, 1))
    \/ \E m \in DOMAIN members, st \in MemberStatuses : WriteMemberStatus(m, st)
    \/ (nextSeq <= MlMaxLoans
        /\ \E m \in DOMAIN members, b \in DOMAIN books, l \in DOMAIN librarians :
             CreateRecord(m, b, l, -1, 0, FINE_PER_DAY_DEFAULT))
    \/ \E r \in DOMAIN records : OldestBorrowed(r) /\ ReturnBook(r)
    \/ \E r \in DOMAIN records : OldestReturned(r) /\ UnlinkRecord(r)
    \/ UpdateOverdueRecords
    \/ CronCalculateOverdueFines
    \/ (today < MlMaxDay /\ AdvanceDay)

SpecMemberLimit == Init /\ [][NextMemberLimit]_vars

\* Stock scenario: one book created with every total_copies input and never
\* rewritten, one member, loans due on day 0, Return, Delete, both sweeps.
NextStock ==
    \/ (DOMAIN books = {} /\ \E t \in TotalCopiesInputs : CreateBook(1, t))
    \/ (DOMAIN librarians = {} /\ CreateLibrarian(1))
    \/ (DOMAIN members = {} /\ CreateMember("active", 1))
    \/ (nextSeq <= StkMaxSeq
        /\ \E m \in DOMAIN members, b \in DOMAIN books, l \in DOMAIN librarians,
              rate \in RateInputs :
             CreateRecord(m, b, l, -1, 0, rate))
    \/ \E r \in DOMAIN records : ReturnBook(r)
    \/ \E r \in DOMAIN records : UnlinkRecord(r)
    \/ UpdateOverdueRecords
    \/ CronCalculateOverdueFines
    \/ (today < StkMaxDay /\ AdvanceDay)

SpecStock == Init /\ [][NextStock]_vars

\* ================================================================ claims

\* the records of book b that are out, counted from the record set
OutOf(b) ==
    Cardinality({r \in DOMAIN records :
        records[r].book_id = b /\ records[r].status \in {"borrowed", "overdue"}})

\* the records of member m with status exactly borrowed
BorrowedBy(m) ==
    Cardinality({r \in DOMAIN records :
        records[r].member_id = m /\ records[r].status = "borrowed"})

\* C1: in every reachable state every book has
\* 0 <= availableCopies <= totalCopies.
C1_AvailableWithinTotal ==
    \A b \in DOMAIN books :
        /\ 0 <= books[b].available_copies
        /\ books[b].available_copies <= books[b].total_copies

\* C2: in every reachable state each book's availableCopies equals
\* max(0, totalCopies - N), N the number of its records that are borrowed or
\* overdue.
C2_AvailableDerived ==
    \A b \in DOMAIN books :
        books[b].available_copies =
            (IF books[b].total_copies - OutOf(b) > 0
             THEN books[b].total_copies - OutOf(b) ELSE 0)

\* C2 witness: after a fine sweep a book with two copies has one overdue loan
\* out and one copy left, and another book has more loans out than copies.
C2_Witness ==
    /\ last.op = "cron_calculate_overdue_fines"
    /\ \E b \in DOMAIN books, r \in DOMAIN records :
        /\ records[r].book_id = b
        /\ records[r].status = "overdue"
        /\ books[b].total_copies = 2
        /\ books[b].available_copies = 1
    /\ \E b \in DOMAIN books :
        /\ OutOf(b) > books[b].total_copies
        /\ books[b].available_copies = 0

\* C3: in every reachable state each member's currentBorrowed equals the
\* number of the member's records whose status is exactly borrowed.
C3_CurrentBorrowedDerived ==
    \A m \in DOMAIN members : members[m].current_borrowed = BorrowedBy(m)

\* C3 witness: a member holds one borrowed and one overdue loan and counts 1.
C3_Witness ==
    \E m \in DOMAIN members, r1, r2 \in DOMAIN records :
        /\ records[r1].member_id = m /\ records[r1].status = "borrowed"
        /\ records[r2].member_id = m /\ records[r2].status = "overdue"
        /\ members[m].current_borrowed = 1

\* C4: Create for a book whose availableCopies is 0 fails with Unavailable
\* and leaves the whole state, the record sequence generator included,
\* unchanged.
C4_UnavailableCreateChangesNothing ==
    [][(/\ last'.op = "create"
        /\ books[last'.b].available_copies = 0)
       => /\ last'.err = "Unavailable"
          /\ records' = records
          /\ books' = books
          /\ members' = members
          /\ nextSeq' = nextSeq]_vars

\* C5: Create fails on the limit check whenever the member's count of
\* borrowed records is >= maxBorrowLimit, and passes the limit check whenever
\* it is < maxBorrowLimit.
C5_LimitCheck ==
    [][last'.op = "create"
       => IF BorrowedBy(last'.m) >= members[last'.m].max_borrow_limit
          THEN /\ last'.err = "LimitExceeded"
               /\ records' = records
               /\ members' = members
          ELSE last'.err # "LimitExceeded"]_vars

\* C5 witness: an active member (limit 10) with 10 borrowed records was
\* refused an 11th.
C5_Witness ==
    /\ last.op = "create"
    /\ last.err = "LimitExceeded"
    /\ members[last.m].member_status = "active"
    /\ members[last.m].max_borrow_limit = 10
    /\ BorrowedBy(last.m) = 10

\* what Return at date now is claimed to leave in record r
ReturnedAs(r, now) ==
    LET old == records[r]
        late == IF now - old.expected_return_date > 0
                THEN now - old.expected_return_date ELSE 0
    IN  /\ r \in DOMAIN records'
        /\ records'[r].status = "returned"
        /\ records'[r].actual_return_date = now
        /\ records'[r].fine_amount = late * old.fine_per_day
        /\ records'[r].days_overdue = late

\* C6 as stated: Return of a non-returned record at date R sets status =
\* returned, actualReturnDate = R, fineAmount = max(0, R - expected) *
\* finePerDay and daysOverdue = max(0, R - expected).
C6_ReturnSetsFine ==
    [][(last'.op = "return" /\ records[last'.r].status # "returned")
       => ReturnedAs(last'.r, today)]_vars

\* C6 amended: Return of a non-returned record at a date R that is not
\* before its borrowDate sets status = returned, actualReturnDate = R,
\* fineAmount = max(0, R - expected) * finePerDay (whatever fine a sweep
\* wrote) and daysOverdue = max(0, R - expected); at a date R before the
\* borrowDate the Return is rejected and the records are unchanged.
C6_ReturnSetsFineFromBorrowDate ==
    [][(last'.op = "return" /\ records[last'.r].status # "returned")
       => IF today >= records[last'.r].borrow_date
          THEN last'.err = "ok" /\ ReturnedAs(last'.r, today)
          ELSE last'.err = "DateOrder" /\ records' = records]_vars

\* C6 witness: a loan expected on day D was returned on day D + 3 at rate 5:
\* fine 15, 3 days overdue.
C6_Witness ==
    /\ last.op = "return"
    /\ last.err = "ok"
    /\ records[last.r].actual_return_date = records[last.r].expected_return_date + 3
    /\ records[last.r].fine_per_day = 5
    /\ records[last.r].fine_amount = 15
    /\ records[last.r].days_overdue = 3

\* C7: Return of a record that is already returned fails with
\* AlreadyReturned and leaves the record and all member and book aggregates
\* unchanged.
C7_SecondReturnRejected ==
    [][(last'.op = "return" /\ records[last'.r].status = "returned")
       => /\ last'.err = "AlreadyReturned"
          /\ records' = records
          /\ members' = members
          /\ books' = books]_vars

\* C7 witness: a Return was refused as AlreadyReturned on a record that
\* carries a fine.
C7_Witness ==
    /\ last.op = "return"
    /\ last.err = "AlreadyReturned"
    /\ records[last.r].status = "returned"
    /\ records[last.r].fine_amount > 0

\* C8: a run of the daily fine sweep that directly follows another run, on
\* the same date, writes nothing: the state is the one the first run left.
C8_SweepIdempotent ==
    [][(last.op = "cron_calculate_overdue_fines"
        /\ last'.op = "cron_calculate_overdue_fines")
       => /\ records' = records
          /\ members' = members
          /\ books' = books
          /\ last'.n = 0]_vars

\* C8 witness: a run of the sweep updated nothing although an overdue loan
\* with a fine is on record.
C8_Witness ==
    /\ last.op = "cron_calculate_overdue_fines"
    /\ last.err = "ok"
    /\ last.n = 0
    /\ \E r \in DOMAIN records :
        /\ records[r].status = "overdue"
        /\ records[r].expected_return_date < today
        /\ records[r].fine_amount > 0

\* C9: a write of a member's status to inactive or pending is rejected, the
\* member unchanged, when currentBorrowed > 5, and otherwise succeeds with
\* maxBorrowLimit 5; no reachable state has an inactive or pending member
\* with currentBorrowed > 5.
C9_StatusWriteGuard ==
    /\ [](\A m \in DOMAIN members :
            members[m].member_status \in {"inactive", "pending"}
            => members[m].current_borrowed <= 5 /\ BorrowedBy(m) <= 5)
    /\ [][(last'.op = "write_member_status" /\ last'.arg \in {"inactive", "pending"})
          => IF members[last'.m].current_borrowed > 5
             THEN /\ last'.err = "StatusLimit"
                  /\ members' = members
             ELSE /\ last'.err = "ok"
                  /\ members'[last'.m].member_status = last'.arg
                  /\ members'[last'.m].max_borrow_limit = 5]_vars

\* C9 witness: a write of status pending was refused for a member with 6
\* borrowed records.
C9_Witness ==
    /\ last.op = "write_member_status"
    /\ last.arg = "pending"
    /\ last.err = "StatusLimit"
    /\ members[last.m].current_borrowed = 6

\* C10: Delete of a borrowed or overdue record fails with Blocked and
\* removes nothing, Delete of a returned record removes it, and every record
\* that leaves the record set had status returned when it did.
C10_DeleteOnlyReturned ==
    /\ [][last'.op = "unlink"
          => IF records[last'.r].status \in {"borrowed", "overdue"}
             THEN last'.err = "Blocked" /\ records' = records
             ELSE last'.err = "ok" /\ last'.r \notin DOMAIN records']_vars
    /\ [][\A r \in DOMAIN records :
            r \notin DOMAIN records' => records[r].status = "returned"]_vars

\* C10 witness: a Delete succeeded and its record is gone.
C10_Witness ==
    /\ last.op = "unlink"
    /\ last.err = "ok"
    /\ last.r \notin DOMAIN records

\* C11: no reachable state holds two distinct books with the same ISBN; an
\* insert of a book, or a write of a book's ISBN, with a value another book
\* holds fails and leaves the catalogue unchanged.
C11_IsbnUnique ==
    /\ [](\A b1, b2 \in DOMAIN books : books[b1].isbn = books[b2].isbn => b1 = b2)
    /\ [][(/\ last'.op \in {"create_book", "write_isbn"}
           /\ \E o \in DOMAIN books : o # last'.b /\ books[o].isbn = last'.n)
          => /\ last'.err = "DuplicateISBN"
             /\ books' = books]_vars

\* C11 witness: a write of the first book's ISBN to the ISBN the second
\* book holds was refused.
C11_Witness ==
    /\ last.op = "write_isbn"
    /\ last.err = "DuplicateISBN"
    /\ Cardinality(DOMAIN books) = 2
    /\ last.b = 1
    /\ books[2].isbn = last.n
    /\ books[1].isbn # last.n

\* C12: after the creation of a member, its status given or left to the
\* default, and after every write of a member's status, maxBorrowLimit is 10
\* if memberStatus is active and 5 if it is pending or inactive.
C12_LimitFollowsStatus ==
    [][(/\ last'.op \in {"create_member", "write_member_status"}
        /\ last'.err = "ok")
       => members'[last'.m].max_borrow_limit =
             (IF members'[last'.m].member_status = "active" THEN 10 ELSE 5)]_vars

\* C13: phone numbers are unique only among the members that are not
\* inactive: a creation or a phone write with the phone of another
\* non-inactive member fails, and one with a phone that only inactive
\* members hold succeeds, so that an inactive and an active member share it.
C13_PhoneUniqueAmongNonInactive ==
    [][last'.op \in {"create_member", "write_member_phone"}
       => IF \E o \in DOMAIN members :
                /\ o # last'.m
                /\ members[o].phone = last'.n
                /\ members[o].member_status # "inactive"
          THEN /\ last'.err = "DuplicatePhone"
               /\ members' = members
          ELSE /\ last'.err = "ok"
               /\ members'[last'.m].phone = last'.n]_vars

\* C14: the status of a borrowing record only changes from borrowed to
\* overdue, from borrowed to returned or from overdue to returned: no
\* operation changes the status of a returned record or moves an overdue
\* record back to borrowed.
C14_StatusOneWay ==
    [][\A r \in DOMAIN records \cap DOMAIN records' :
          \/ records'[r].status = records[r].status
          \/ records[r].status = "borrowed" /\ records'[r].status = "overdue"
          \/ records[r].status = "borrowed" /\ records'[r].status = "returned"
          \/ records[r].status = "overdue" /\ records'[r].status = "returned"]_vars

\* C15: a record that Create has made has status overdue if its
\* expectedReturnDate is strictly before the date of creation and status
\* borrowed otherwise; it never starts as returned.
C15_InitialStatus ==
    [][(last'.op = "create" /\ last'.err = "ok")
       => /\ last'.r \notin DOMAIN records
          /\ records'[last'.r].status =
                (IF records'[last'.r].expected_return_date < today
                 THEN "overdue" ELSE "borrowed")
          /\ records'[last'.r].status # "returned"]_vars

\* C15 witness: a record due the day before was created, overdue from the
\* start and with no return date.
C15_Witness ==
    /\ last.op = "create"
    /\ last.err = "ok"
    /\ records[last.r].status = "overdue"
    /\ records[last.r].expected_return_date = today - 1
    /\ records[last.r].actual_return_date = NoDate

\* C16: right after a run of the daily fine sweep that succeeded at date T,
\* no record is borrowed with expectedReturnDate < T, and every overdue
\* record with expectedReturnDate < T has daysOverdue = T - expectedReturnDate
\* and fineAmount = daysOverdue * finePerDay.
C16_AfterSweep ==
    (last.op = "cron_calculate_overdue_fines" /\ last.err = "ok")
    => \A r \in DOMAIN records :
          records[r].expected_return_date < today
          => /\ records[r].status # "borrowed"
             /\ records[r].status = "overdue"
                => /\ records[r].days_overdue = today - records[r].expected_return_date
                   /\ records[r].fine_amount =
                         records[r].days_overdue * records[r].fine_per_day

\* C16 witness: a sweep on day 2 wrote one record, and a record due on day 0
\* is overdue by 2 days with a fine of 10.
C16_Witness ==
    /\ last.op = "cron_calculate_overdue_fines"
    /\ last.err = "ok"
    /\ last.n = 1
    /\ today = 2
    /\ \E r \in DOMAIN records :
        /\ records[r].status = "overdue"
        /\ records[r].expected_return_date = 0
        /\ records[r].days_overdue = 2
        /\ records[r].fine_amount = 10

\* C17 as stated: Return of a record succeeds whenever its status is borrowed
\* or overdue: every unreturned record can be returned at the current date
\* and ends in status returned.
C17_ReturnAlwaysSucceeds ==
    [][(last'.op = "return" /\ records[last'.r].status \in {"borrowed", "overdue"})
       => /\ last'.err = "ok"
          /\ records'[last'.r].status = "returned"]_vars

\* C17 amended: Return of a borrowed or overdue record succeeds, the record
\* ending in status returned, whenever the current date is not before the
\* record's borrowDate; for a record whose borrowDate is after the current
\* date it fails on the date order and the record keeps its status.
C17_ReturnSucceedsFromBorrowDate ==
    [][(last'.op = "return" /\ records[last'.r].status \in {"borrowed", "overdue"})
       => IF records[last'.r].borrow_date <= today
          THEN /\ last'.err = "ok"
               /\ records'[last'.r].status = "returned"
          ELSE /\ last'.err = "DateOrder"
               /\ records'[last'.r].status = records[last'.r].status]_vars

\* C17 witness: a Return succeeded on a record that was past due and had
\* been borrowed before the current date.
C17_Witness ==
    /\ last.op = "return"
    /\ last.err = "ok"
    /\ records[last.r].status = "returned"
    /\ records[last.r].actual_return_date = today
    /\ records[last.r].expected_return_date < today
    /\ records[last.r].borrow_date < today

\* C18: in every reachable state every record has expectedReturnDate >
\* borrowDate and, when it has an actualReturnDate, actualReturnDate >=
\* borrowDate; a Create, or an Update of borrowDate, expectedReturnDate or
\* actualReturnDate, that would break either order is rejected and leaves
\* the record unchanged.
C18_DateOrder ==
    /\ [](\A r \in DOMAIN records :
            /\ records[r].expected_return_date > records[r].borrow_date
            /\ records[r].actual_return_date # NoDate
               => records[r].actual_return_date >= records[r].borrow_date)
    /\ [][(\/ /\ last'.op = "write_borrow_date"
              /\ \/ records[last'.r].expected_return_date <= last'.n
                 \/ /\ records[last'.r].actual_return_date # NoDate
                    /\ records[last'.r].actual_return_date < last'.n
           \/ /\ last'.op = "write_expected_return_date"
              /\ last'.n <= records[last'.r].borrow_date
           \/ /\ last'.op = "write_actual_return_date"
              /\ last'.n # NoDate
              /\ last'.n < records[last'.r].borrow_date)
          => /\ last'.err = "DateOrder"
             /\ records' = records]_vars
    /\ [][last'.op = "create"
          => IF last'.err = "ok"
             THEN records'[last'.r].expected_return_date
                     > records'[last'.r].borrow_date
             ELSE records' = records]_vars

\* C18 witness: a write of the borrow date of a returned record to a date
\* after its actual return date, and before its expected one, was refused.
C18_Witness ==
    /\ last.op = "write_borrow_date"
    /\ last.err = "DateOrder"
    /\ records[last.r].status = "returned"
    /\ records[last.r].actual_return_date # NoDate
    /\ records[last.r].actual_return_date < last.n
    /\ last.n < records[last.r].expected_return_date

\* C19: in every reachable state, those reached by the date moving on with no
\* sweep or write included, a borrowed or overdue record has daysOverdue =
\* max(0, today - expectedReturnDate) and a returned record has daysOverdue =
\* max(0, actualReturnDate - expectedReturnDate).
C19_DaysOverdueCurrent ==
    \A r \in DOMAIN records :
        IF records[r].status \in {"borrowed", "overdue"}
        THEN records[r].days_overdue =
                Max(0, today - records[r].expected_return_date)
        ELSE records[r].actual_return_date # NoDate
             => records[r].days_overdue =
                   Max(0, records[r].actual_return_date
                          - records[r].expected_return_date)

\* C20: update_overdue_records sets to overdue the status of exactly the
\* records that are borrowed with expectedReturnDate < today and leaves the
\* fineAmount, the actualReturnDate and the dates of every record, and the
\* status of every other record, as they were; fineAmount is changed only by
\* Return and by the daily fine sweep, never by Create, Delete,
\* update_overdue_records or a change of a member's status.
C20_SyncFrame ==
    /\ [][last'.op = "update_overdue_records"
          => /\ DOMAIN records' = DOMAIN records
             /\ \A r \in DOMAIN records :
                 /\ records'[r].status =
                       (IF /\ records[r].status = "borrowed"
                           /\ records[r].expected_return_date < today
                        THEN "overdue" ELSE records[r].status)
                 /\ records'[r].fine_amount = records[r].fine_amount
                 /\ records'[r].actual_return_date = records[r].actual_return_date
                 /\ records'[r].borrow_date = records[r].borrow_date
                 /\ records'[r].expected_return_date = records[r].expected_return_date]_vars
    /\ [][/\ \A r \in DOMAIN records \cap DOMAIN records' :
               records'[r].fine_amount # records[r].fine_amount
               => last'.op \in {"return", "cron_calculate_overdue_fines"}
          /\ \A r \in DOMAIN records' \ DOMAIN records :
               records'[r].fine_amount = 0]_vars

\* C20 witness: update_overdue_records turned one record, due on day 2,
\* overdue without a fine, next to a returned record that keeps its fine.
C20_Witness ==
    /\ last.op = "update_overdue_records"
    /\ last.err = "ok"
    /\ last.n = 1
    /\ \E r, o \in DOMAIN records :
        /\ records[r].status = "overdue"
        /\ records[r].expected_return_date = 2
        /\ records[r].fine_amount = 0
        /\ records[o].status = "returned"
        /\ records[o].fine_amount > 0

\* the records of member m that this step turns from borrowed to overdue
TurnedOverdue(m) ==
    {r \in DOMAIN records \cap DOMAIN records' :
        /\ records[r].member_id = m
        /\ records[r].status = "borrowed"
        /\ records'[r].status = "overdue"}

\* C21: when a sweep turns records from borrowed to overdue, the owning
\* member's currentBorrowed goes down by one for each of them and every
\* book's availableCopies stays as it was; a member with an overdue loan and
\* fewer borrowed loans than maxBorrowLimit can Create a record for a book
\* with an available copy, however many loans the member has out.
C21_OverdueFreesLimit ==
    /\ [][last'.op \in {"update_overdue_records", "cron_calculate_overdue_fines"}
          => /\ \A m \in DOMAIN members :
                  members'[m].current_borrowed =
                      members[m].current_borrowed - Cardinality(TurnedOverdue(m))
             /\ \A b \in DOMAIN books :
                  books'[b].available_copies = books[b].available_copies]_vars
    /\ [][(/\ last'.op = "create"
           /\ \E r \in DOMAIN records :
                 records[r].member_id = last'.m /\ records[r].status = "overdue"
           /\ members[last'.m].current_borrowed < members[last'.m].max_borrow_limit
           /\ books[last'.b].available_copies >= 1)
          => /\ last'.err = "ok"
             /\ last'.r \in DOMAIN records' \ DOMAIN records
             /\ records'[last'.r].member_id = last'.m]_vars

\* C21 witness: a member of limit 5 who had 5 loans out, one of them turned
\* overdue since, holds a 6th loan just created.
C21_Witness ==
    /\ last.op = "create"
    /\ last.err = "ok"
    /\ members[last.m].max_borrow_limit = 5
    /\ members[last.m].current_borrowed = 5
    /\ Cardinality({r \in DOMAIN records :
          records[r].member_id = last.m /\ records[r].status = "overdue"}) = 1
    /\ books[last.b].available_copies = books[last.b].total_copies - 6

C23_ReferencesRestrictDelete ==
    /\ [](\A r \in DOMAIN records :
            /\ records[r].member_id \in DOMAIN members
            /\ records[r].book_id \in DOMAIN books
            /\ records[r].librarian_id \in DOMAIN librarians)
    /\ [][(\/ /\ last'.op = "unlink_member"
              /\ \E r \in DOMAIN records : records[r].member_id = last'.m
           \/ /\ last'.op = "unlink_book"
              /\ \E r \in DOMAIN records : records[r].book_id = last'.b
           \/ /\ last'.op = "unlink_librarian"
              /\ \E r \in DOMAIN records : records[r].librarian_id = last'.n)
          => /\ last'.err = "Restrict"
             /\ members' = members
             /\ books' = books
             /\ librarians' = librarians
             /\ records' = records]_vars

\* C23 witness: the delete of a member was refused although the only record
\* that refers to the member is returned.
C23_Witness ==
    /\ last.op = "unlink_member"
    /\ last.err = "Restrict"
    /\ last.m \in DOMAIN members
    /\ \E r \in DOMAIN records : records[r].member_id = last.m
    /\ \A r \in DOMAIN records :
          records[r].member_id = last.m => records[r].status = "returned"

\* C24: the manual test action (action_test_cron_fine_calculation) leaves
\* the borrowing records in the state a scheduled run of
\* cron_calculate_overdue_fines at the same date leaves them in.
C24_TestActionRunsSweep ==
    [][last'.op = "action_test_cron_fine_calculation"
       => records' = FineSweep(records, members, books, today).recs]_vars

\* C26: in every state reached by member creation, member status writes,
\* record Create, Return, Delete and both overdue sweeps, every member has
\* currentBorrowed <= maxBorrowLimit.
C26_BorrowedWithinLimit ==
    \A m \in DOMAIN members :
        /\ members[m].current_borrowed <= members[m].max_borrow_limit
        /\ BorrowedBy(m) <= members[m].max_borrow_limit

\* C26 witness: a member of limit 5 who holds 5 borrowed loans and an
\* overdue one was refused another loan.
C26_Witness ==
    /\ last.op = "create"
    /\ last.err = "LimitExceeded"
    /\ members[last.m].max_borrow_limit = 5
    /\ members[last.m].current_borrowed = 5
    /\ BorrowedBy(last.m) = 5
    /\ \E r \in DOMAIN records :
          records[r].member_id = last.m /\ records[r].status = "overdue"

\* C27: in every state reached by record Create, Return, Delete and both
\* overdue sweeps, each book's totalCopies held fixed, the number of the
\* book's records that are borrowed or overdue is at most its totalCopies.
C27_NeverOverLent ==
    \A b \in DOMAIN books : OutOf(b) <= books[b].total_copies

\* C28: update_overdue_records and cron_calculate_overdue_fines leave
\* unchanged every returned record (status, actualReturnDate, fineAmount,
\* daysOverdue) and every borrowed record with expectedReturnDate >= today;
\* the fineAmount of a returned record stays the one Return set however many
\* sweeps run and however far the date moves on.
C28_SweepsLeaveReturned ==
    /\ [][last'.op \in {"update_overdue_records", "cron_calculate_overdue_fines"}
          => \A r \in DOMAIN records :
                (\/ records[r].status = "returned"
                 \/ /\ records[r].status = "borrowed"
                    /\ records[r].expected_return_date >= today)
                => /\ r \in DOMAIN records'
                   /\ records'[r] = records[r]]_vars
    /\ [][last'.op \in {"update_overdue_records", "cron_calculate_overdue_fines",
                        "advance_day"}
          => \A r \in DOMAIN records :
                records[r].status = "returned"
                => /\ r \in DOMAIN records'
                   /\ records'[r].status = "returned"
                   /\ records'[r].fine_amount = records[r].fine_amount]_vars

\* C28 witness: a sweep on day 3 wrote one record and left alone a record
\* returned on day 1 with a fine of 5.
C28_Witness ==
    /\ last.op = "cron_calculate_overdue_fines"
    /\ last.err = "ok"
    /\ last.n = 1
    /\ today = 3
    /\ \E r \in DOMAIN records :
        /\ records[r].status = "returned"
        /\ records[r].actual_return_date = 1
        /\ records[r].expected_return_date = 0
        /\ records[r].fine_amount = 5
        /\ records[r].days_overdue = 1

====
